---- MODULE Spec2Model ----
(***************************************************************************)
(* Model of NLUService (src/nlu_service.py): the extraction of a calendar  *)
(* event from a transcribed text through one chat-completion request.      *)
(*                                                                         *)
(* Time is counted in hours.  A datetime is a record                       *)
(*   [wall |-> hours since 0000-00-00T00 on the wall clock,                *)
(*    aware |-> whether tzinfo is set, off |-> the UTC offset in hours].   *)
(* A string is a sequence of tokens, a date-time string has one token per  *)
(* character: <<"1","T","1","5">> is day 1, 15:00; a suffix <<"Z">> or     *)
(* <<"+","3">> carries the UTC offset.                                     *)
(* A JSON value is a tagged record: [t |-> "str", s |-> ..],               *)
(* [t |-> "num", n |-> ..], [t |-> "null"], [t |-> "list", ..],            *)
(* [t |-> "obj", f |-> function from keys to JSON values].                 *)
(***************************************************************************)
EXTENDS Integers, Sequences, FiniteSets, TLC

\* ------------------------------------------------------------ bounds
\* The clock (UTC hours) runs from 0 to MaxClock.
MaxClock == 2

\* timedelta(days=1), in hours.
Day == 24

\* The invocations of extract_event_info on the one NLUService instance.
Calls == {"call1", "call2"}

\* The transcribed texts handed to extract_event_info.
Texts == {<<"meeting tomorrow at 15">>, <<"call the team">>}

VARIABLES
    client,     \* self.client: the endpoint client built from the API key
    timezone,   \* self.timezone: pytz.timezone(Config.TIMEZONE)
    clock,      \* the system clock, in UTC hours
    pc,         \* per call: "idle", "waiting" (request sent, no reply yet), "done"
    prompt,     \* per call: the prompt built by _create_prompt
    promptNow,  \* per call: current_datetime of _create_prompt
    requests,   \* per call: the number of requests sent to the completion endpoint
    reply,      \* per call: what the endpoint answered (a content or an exception)
    replyNow,   \* per call: the clock at the time the reply is handled
    outcome     \* per call: the returned record or the raised exception

vars == <<client, timezone, clock, pc, prompt, promptNow, requests, reply, replyNow, outcome>>

\* ------------------------------------------------------------ values
JStr(s) == [t |-> "str", s |-> s]
JNum(n) == [t |-> "num", n |-> n]
JNull == [t |-> "null"]
JList(l) == [t |-> "list", l |-> l]
JObj(f) == [t |-> "obj", f |-> f]
\* A datetime object stored in the result dict.
PyDatetime(dt) == [t |-> "datetime", dt |-> dt]

Exc(type, msg) == [type |-> type, msg |-> msg]

\* ------------------------------------------------------------ the timezone
\* Config.TIMEZONE names a zone with a standard offset and, after dstStart (UTC),
\* a daylight-saving offset.
ConfiguredZone == [name |-> "Local/Zone", std |-> 1, dst |-> 2, dstStart |-> 1]

\* The zone's UTC offset at the UTC instant u.
UtcOffsetAt(tz, u) == IF u >= tz.dstStart THEN tz.dst ELSE tz.std

\* datetime.now(self.timezone)
get_current_datetime(tz, clk) ==
    [wall |-> clk + UtcOffsetAt(tz, clk), aware |-> TRUE, off |-> UtcOffsetAt(tz, clk)]

\* A fallback that forgets the timedelta.
PlusNothing(dt) == dt

\* dt + timedelta(days=1): wall-clock arithmetic, tzinfo kept
PlusOneDay(dt) == [dt EXCEPT !.wall = dt.wall + Day]

\* self.timezone.localize(dt) of pytz (is_dst=False): the offsets under which the
\* wall-clock value exists in the zone.
LocalizeCandidates(tz, wall) == {o \in {tz.std, tz.dst} : UtcOffsetAt(tz, wall - o) = o}

\* A localisation that reads the naive value as UTC and converts it to the zone.
LocalizeFromUtc(tz, dt) ==
    [wall |-> dt.wall + UtcOffsetAt(tz, dt.wall), aware |-> TRUE, off |-> UtcOffsetAt(tz, dt.wall)]

\* The wall-clock fields are kept and the zone's offset for that local time is
\* attached; an ambiguous local time takes the standard offset, a local time
\* skipped by the transition takes the offset in force six hours earlier.
localize(tz, dt) ==
    LET cands == LocalizeCandidates(tz, dt.wall)
        before == LocalizeCandidates(tz, dt.wall - 6)
        off == IF cands = {}
               THEN (IF tz.std \in before \/ before = {} THEN tz.std ELSE tz.dst)
               ELSE (IF tz.std \in cands THEN tz.std ELSE tz.dst)
    IN  [wall |-> dt.wall, aware |-> TRUE, off |-> off]

\* ------------------------------------------------------------ strings
DigitChars == <<"0", "1", "2", "3", "4", "5", "6", "7", "8", "9">>
IsDigit(ch) == \E i \in 1..Len(DigitChars) : DigitChars[i] = ch
DigitValue(ch) == (CHOOSE i \in 1..Len(DigitChars) : DigitChars[i] = ch) - 1

\* current_datetime.strftime("%Y-%m-%d %H:%M:%S"): the wall-clock fields only,
\* the offset is not printed.
strftime(dt) ==
    LET d == dt.wall \div Day
        h == dt.wall % Day
    IN  <<DigitChars[d + 1], " ", DigitChars[(h \div 10) + 1], DigitChars[(h % 10) + 1]>>

\* _create_prompt(text): the fields of the f-string that vary.
create_prompt(tz, now, text) ==
    [current_date_str |-> strftime(now), timezone |-> tz.name, text |-> text]

\* dateutil's parser on a string: day, "T", two digits of the hour, then nothing
\* (naive), "Z", or a sign and one digit (aware).
HasDateShape(s) ==
    /\ Len(s) >= 4
    /\ IsDigit(s[1])
    /\ s[2] = "T"
    /\ IsDigit(s[3])
    /\ IsDigit(s[4])
    /\ 10 * DigitValue(s[3]) + DigitValue(s[4]) < Day

HasZoneShape(z) ==
    \/ z = <<>>
    \/ z = <<"Z">>
    \/ Len(z) = 2 /\ z[1] \in {"+", "-"} /\ IsDigit(z[2])

ZoneOffset(z) ==
    IF Len(z) = 2 THEN (IF z[1] = "-" THEN 0 - DigitValue(z[2]) ELSE DigitValue(z[2])) ELSE 0

\* parser.parse(dt_str): [ok |-> TRUE, dt |-> ..] or [ok |-> FALSE, exc |-> ..]
parser_parse(v) ==
    IF v.t # "str"
    THEN [ok |-> FALSE, exc |-> Exc("TypeError", "Parser must be a string")]
    ELSE IF HasDateShape(v.s) /\ HasZoneShape(SubSeq(v.s, 5, Len(v.s)))
    THEN [ok |-> TRUE,
          dt |-> [wall |-> Day * DigitValue(v.s[1]) + 10 * DigitValue(v.s[3]) + DigitValue(v.s[4]),
                  aware |-> Len(v.s) > 4,
                  off |-> ZoneOffset(SubSeq(v.s, 5, Len(v.s)))]]
    ELSE [ok |-> FALSE, exc |-> Exc("ParserError", "Unknown string format")]

\* ------------------------------------------------------------ the reply
\* response.choices[0].message.content: None, or a text that is or is not JSON.
NoContent == [t |-> "none"]
NotJsonText == [t |-> "text", wf |-> FALSE, v |-> JNull]
JsonText(v) == [t |-> "text", wf |-> TRUE, v |-> v]

\* json.loads(result_text)
json_loads(content) ==
    IF content.t = "none"
    THEN [ok |-> FALSE, exc |-> Exc("TypeError", "the JSON object must be str, bytes or bytearray")]
    ELSE IF ~content.wf
    THEN [ok |-> FALSE, exc |-> Exc("JSONDecodeError", "Expecting value")]
    ELSE [ok |-> TRUE, v |-> content.v]

\* ------------------------------------------------------------ the handler
\* result[key] = value
SetItem(f, key, value) == [k \in DOMAIN f \cup {key} |-> IF k = key THEN value ELSE f[k]]

\* result.setdefault(key, value)
setdefault(f, key, value) == IF key \in DOMAIN f THEN f ELSE SetItem(f, key, value)

\* Lines 88-99: the date of a parsed object; now is self._get_current_datetime()
\* read when the parse fails.
normalize_start_datetime(tz, now, f) ==
    IF "start_datetime" \notin DOMAIN f
    THEN f
    ELSE LET p == parser_parse(f["start_datetime"])
         IN  IF p.ok
             THEN SetItem(f, "start_datetime",
                          PyDatetime(IF p.dt.aware THEN p.dt ELSE localize(tz, p.dt)))
             ELSE SetItem(f, "start_datetime", PyDatetime(PlusOneDay(now)))

\* Defaults applied as a block, only when the reply has no action.
ApplyDefaultsTogether(f) ==
    IF "action" \in DOMAIN f
    THEN f
    ELSE setdefault(setdefault(SetItem(f, "action", JStr(<<"create_event">>)),
                               "duration_minutes", JNum(60)),
                    "description", JNull)

\* Lines 102-104
apply_defaults(f) ==
    setdefault(setdefault(setdefault(f, "action", JStr(<<"create_event">>)),
                          "duration_minutes", JNum(60)),
               "description", JNull)

Return(rec) == [kind |-> "record", rec |-> rec]
Raise(exc) == [kind |-> "error", exc |-> exc]

\* "start_datetime" in result, for a result that is a str or a list
Contains(v) ==
    IF v.t = "str"
    THEN \E i \in 1..Len(v.s) : v.s[i] = "start_datetime"
    ELSE \E i \in 1..Len(v.l) : v.l[i] = JStr(<<"start_datetime">>)

\* Lines 84-107: the body of the try block once the endpoint has answered.
try_body(tz, now, content) ==
    LET r == json_loads(content)
    IN  IF ~r.ok THEN Raise(r.exc)
        ELSE IF r.v.t = "obj" THEN Return(apply_defaults(normalize_start_datetime(tz, now, r.v.f)))
        ELSE IF r.v.t \in {"num", "null"} THEN Raise(Exc("TypeError", "argument is not iterable"))
        ELSE IF Contains(r.v) THEN Raise(Exc("TypeError", "indices must be integers"))
        ELSE Raise(Exc("AttributeError", "object has no attribute setdefault"))

RephraseError == Exc("ValueError", "could not process the request, rephrase it")

\* Except clauses without the JSONDecodeError clause.
ExceptReraiseAll(res) == res

\* Except clauses that translate every exception.
ExceptTranslateAll(res) == IF res.kind = "error" THEN Raise(RephraseError) ELSE res

\* Lines 109-114: the except clauses.
except_clauses(res) ==
    IF res.kind = "error" /\ res.exc.type = "JSONDecodeError"
    THEN Raise(RephraseError)
    ELSE res

\* ------------------------------------------------------------ inputs
Absent == [t |-> "absent"]

Obj(a, su, st, du, de, ex) ==
    LET all == [k \in {"action", "summary", "start_datetime", "duration_minutes",
                       "description", "note"} |->
                   CASE k = "action" -> a
                     [] k = "summary" -> su
                     [] k = "start_datetime" -> st
                     [] k = "duration_minutes" -> du
                     [] k = "description" -> de
                     [] OTHER -> ex]
    IN  JObj([k \in {x \in DOMAIN all : all[x] # Absent} |-> all[k]])

ActionValues == {Absent, JStr(<<"delete_event">>), JStr(<<"remind_me">>)}
NaiveDate == JStr(<<"1", "T", "1", "5">>)
StartValues == {Absent, NaiveDate, JStr(<<"0", "T", "0", "2">>),
                JStr(<<"1", "T", "1", "5", "+", "3">>), JStr(<<"1", "T", "0", "9", "Z">>),
                JStr(<<"not-a-date">>), JStr(<<"1", "T", "2", "5">>), JNum(5)}
DurationValues == {Absent, JNum(30)}
DescriptionValues == {Absent, JStr(<<"bring slides">>)}

FullDate(st) == Obj(JStr(<<"update_event">>), JStr(<<"Meeting">>), st, JNum(30), JNull, JStr(<<"extra">>))

\* Every combination of the defaulted fields, every date alone, and two replies
\* with every field.
Objects ==
    {Obj(a, JStr(<<"Meeting">>), NaiveDate, du, de, Absent) :
        a \in ActionValues, du \in DurationValues, de \in DescriptionValues}
    \cup {Obj(Absent, Absent, st, Absent, Absent, Absent) : st \in StartValues}
    \cup {FullDate(NaiveDate), FullDate(JStr(<<"not-a-date">>))}

Contents ==
    {NoContent, NotJsonText}
    \cup {JsonText(v) : v \in {JNull, JNum(5), JStr(<<"start_datetime">>), JList(<<>>)}}
    \cup {JsonText(o) : o \in Objects}

\* What the call of the completion endpoint raises when it fails.
EndpointErrors == {Exc("APIConnectionError", "connection error"),
                   Exc("AuthenticationError", "invalid api key"),
                   Exc("InternalServerError", "server error")}

NoPrompt == [current_date_str |-> <<>>, timezone |-> "", text |-> <<>>]
NoDatetime == [wall |-> 0, aware |-> FALSE, off |-> 0]
NoReply == [kind |-> "none"]
NoOutcome == [kind |-> "none"]

\* ------------------------------------------------------------ the machine
Init ==
    /\ client = [api_key |-> "OPENAI_API_KEY"]
    /\ timezone = ConfiguredZone
    /\ clock = 0
    /\ pc = [c \in Calls |-> "idle"]
    /\ prompt = [c \in Calls |-> NoPrompt]
    /\ promptNow = [c \in Calls |-> NoDatetime]
    /\ requests = [c \in Calls |-> 0]
    /\ reply = [c \in Calls |-> NoReply]
    /\ replyNow = [c \in Calls |-> NoDatetime]
    /\ outcome = [c \in Calls |-> NoOutcome]

\* Time passes.
Tick ==
    /\ clock < MaxClock
    /\ clock' = clock + 1
    /\ UNCHANGED <<client, timezone, pc, prompt, promptNow, requests, reply, replyNow, outcome>>

\* The event loop runs one coroutine at a time, and extract_event_info holds it
\* from its first line to its return: it has no await, the request is the
\* blocking call of the synchronous client.
LoopFree == \A c \in Calls : pc[c] # "waiting"

\* The current date-time kept in an attribute of the instance instead of a local.
SendRequestSharedNow(c, text) ==
    /\ pc[c] = "idle"
    /\ LET now == get_current_datetime(timezone, clock)
       IN  /\ promptNow' = [d \in Calls |-> now]
           /\ prompt' = [prompt EXCEPT ![c] = create_prompt(timezone, now, text)]
    /\ requests' = [requests EXCEPT ![c] = @ + 1]
    /\ pc' = [pc EXCEPT ![c] = "waiting"]
    /\ UNCHANGED <<client, timezone, clock, reply, replyNow, outcome>>

\* Lines 72-82: the prompt is built and the request is sent.
SendRequest(c, text) ==
    /\ pc[c] = "idle"
    /\ LET now == get_current_datetime(timezone, clock)
       IN  /\ promptNow' = [promptNow EXCEPT ![c] = now]
           /\ prompt' = [prompt EXCEPT ![c] = create_prompt(timezone, now, text)]
    /\ requests' = [requests EXCEPT ![c] = @ + 1]
    /\ pc' = [pc EXCEPT ![c] = "waiting"]
    /\ UNCHANGED <<client, timezone, clock, reply, replyNow, outcome>>

\* Lines 74-107 and 109-114: the endpoint answers and the answer is handled.
EndpointReplies(c, content) ==
    /\ pc[c] = "waiting"
    /\ reply' = [reply EXCEPT ![c] = [kind |-> "content", content |-> content]]
    /\ replyNow' = [replyNow EXCEPT ![c] = get_current_datetime(timezone, clock)]
    /\ outcome' = [outcome EXCEPT ![c] =
            except_clauses(try_body(timezone, get_current_datetime(timezone, clock), content))]
    /\ pc' = [pc EXCEPT ![c] = "done"]
    /\ UNCHANGED <<client, timezone, clock, prompt, promptNow, requests>>

\* A failed request that is sent again.
EndpointFailsRetry(c, exc) ==
    /\ pc[c] = "waiting"
    /\ requests' = [requests EXCEPT ![c] = @ + 1]
    /\ UNCHANGED <<client, timezone, clock, pc, prompt, promptNow, reply, replyNow, outcome>>

\* Lines 74 and 112-114: the call of the endpoint raises.
EndpointFails(c, exc) ==
    /\ pc[c] = "waiting"
    /\ reply' = [reply EXCEPT ![c] = [kind |-> "raised", exc |-> exc]]
    /\ outcome' = [outcome EXCEPT ![c] = except_clauses(Raise(exc))]
    /\ pc' = [pc EXCEPT ![c] = "done"]
    /\ UNCHANGED <<client, timezone, clock, prompt, promptNow, requests, replyNow>>

\* Line 61: the event loop runs the coroutine when no other coroutine holds it.
Invoke(c, text) == LoopFree /\ SendRequest(c, text)

\* The calls of one event loop.
Next ==
    \/ Tick
    \/ \E c \in Calls, text \in Texts : Invoke(c, text)
    \/ \E c \in Calls, content \in Contents : EndpointReplies(c, content)
    \/ \E c \in Calls, exc \in EndpointErrors : EndpointFails(c, exc)

Spec == Init /\ [][Next]_vars

\* The calls made from several threads, each with an event loop of its own.
NextThreads ==
    \/ Tick
    \/ \E c \in Calls, text \in Texts : SendRequest(c, text)
    \/ \E c \in Calls, content \in Contents : EndpointReplies(c, content)
    \/ \E c \in Calls, exc \in EndpointErrors : EndpointFails(c, exc)

SpecThreads == Init /\ [][NextThreads]_vars

\* ------------------------------------------------------------ claims
Done(c) == pc[c] = "done"
Returned(c) == Done(c) /\ outcome[c].kind = "record"
Failed(c) == Done(c) /\ outcome[c].kind = "error"
Answered(c) == Done(c) /\ reply[c].kind = "content"
RepliedNotJson(c) == Answered(c) /\ reply[c].content.t = "text" /\ ~reply[c].content.wf
RepliedObject(c) ==
    /\ Answered(c)
    /\ reply[c].content.t = "text"
    /\ reply[c].content.wf
    /\ reply[c].content.v.t = "obj"
ReplyFields(c) == reply[c].content.v.f
HasStart(c) == RepliedObject(c) /\ "start_datetime" \in DOMAIN ReplyFields(c)
StartParses(c) == HasStart(c) /\ parser_parse(ReplyFields(c)["start_datetime"]).ok
StartFailsToParse(c) == HasStart(c) /\ ~parser_parse(ReplyFields(c)["start_datetime"]).ok
IsZonedInstant(v) == v.t = "datetime" /\ v.dt.aware

\* C1: every returned record holds a start_datetime that is a timezone-aware
\* instant, never a string and never missing.
C1_StartAlwaysZoned ==
    \A c \in Calls : Returned(c) =>
        /\ "start_datetime" \in DOMAIN outcome[c].rec
        /\ IsZonedInstant(outcome[c].rec["start_datetime"])

\* C2 as stated: when start_datetime fails to parse, a record is returned and its
\* start_datetime is the date-time of the prompt plus one day.
C2_FallbackFromPromptTime ==
    \A c \in Calls : StartFailsToParse(c) =>
        /\ Returned(c)
        /\ outcome[c].rec["start_datetime"] =
               PyDatetime([wall |-> promptNow[c].wall + Day, aware |-> TRUE, off |-> promptNow[c].off])

\* C2 amended: when start_datetime fails to parse, a record is returned and its
\* start_datetime is the date-time read from the clock when the reply is handled,
\* plus one day, in the configured timezone.
C2_FallbackFromReplyTime ==
    \A c \in Calls : StartFailsToParse(c) =>
        /\ Returned(c)
        /\ outcome[c].rec["start_datetime"] =
               PyDatetime([wall |-> replyNow[c].wall + Day, aware |-> TRUE, off |-> replyNow[c].off])
        /\ replyNow[c].off \in {ConfiguredZone.std, ConfiguredZone.dst}

\* A call whose date failed to parse, answered after the clock moved on.
C2_Witness ==
    \E c \in Calls : StartFailsToParse(c) /\ Returned(c) /\ replyNow[c] # promptNow[c]

\* The exception raised inside the try block of a failed call.
RaisedInTry(c) ==
    IF reply[c].kind = "raised"
    THEN reply[c].exc
    ELSE try_body(ConfiguredZone, replyNow[c], reply[c].content).exc

C5_ActionInEnum ==
    \A c \in Calls : Returned(c) =>
        outcome[c].rec["action"] \in
            {JStr(<<"create_event">>), JStr(<<"delete_event">>), JStr(<<"update_event">>)}

\* C6: every reply that is a JSON object gives a record in which action,
\* duration_minutes and description each have the reply's value when the reply
\* has the field and create_event, 60, None when it has not, and in which summary
\* and every other field but start_datetime have the reply's value.
C6_DefaultsIndependent ==
    \A c \in Calls : RepliedObject(c) =>
        /\ Returned(c)
        /\ DOMAIN outcome[c].rec =
               DOMAIN ReplyFields(c) \cup {"action", "duration_minutes", "description"}
        /\ outcome[c].rec["action"] =
               IF "action" \in DOMAIN ReplyFields(c)
               THEN ReplyFields(c)["action"] ELSE JStr(<<"create_event">>)
        /\ outcome[c].rec["duration_minutes"] =
               IF "duration_minutes" \in DOMAIN ReplyFields(c)
               THEN ReplyFields(c)["duration_minutes"] ELSE JNum(60)
        /\ outcome[c].rec["description"] =
               IF "description" \in DOMAIN ReplyFields(c)
               THEN ReplyFields(c)["description"] ELSE JNull
        /\ \A k \in DOMAIN ReplyFields(c) \ {"start_datetime"} :
               outcome[c].rec[k] = ReplyFields(c)[k]

\* A reply with an action and a description but no duration.
C6_Witness ==
    \E c \in Calls :
        /\ Returned(c)
        /\ {"action", "description", "summary"} \subseteq DOMAIN ReplyFields(c)
        /\ "duration_minutes" \notin DOMAIN ReplyFields(c)

\* C7: when start_datetime parses, the record holds the parsed value: as parsed
\* when it carries an offset, and with the same wall-clock fields and the zone's
\* offset for that local time when it is naive.
C7_ParsedDateKept ==
    \A c \in Calls : StartParses(c) =>
        LET p == parser_parse(ReplyFields(c)["start_datetime"]).dt
            got == outcome[c].rec["start_datetime"]
        IN  /\ Returned(c)
            /\ IsZonedInstant(got)
            /\ p.aware => got.dt = p
            /\ ~p.aware =>
                  /\ got.dt.wall = p.wall
                  /\ got.dt.off \in {ConfiguredZone.std, ConfiguredZone.dst}
                  /\ LocalizeCandidates(ConfiguredZone, p.wall) # {} =>
                         UtcOffsetAt(ConfiguredZone, got.dt.wall - got.dt.off) = got.dt.off

\* One call with a naive date and one with a date that carries an offset.
C7_Witness ==
    \E c, d \in Calls :
        /\ StartParses(c) /\ ~parser_parse(ReplyFields(c)["start_datetime"]).dt.aware
        /\ StartParses(d) /\ parser_parse(ReplyFields(d)["start_datetime"]).dt.off = 3

\* C8: a call that has started has sent exactly one request, whichever way it
\* ends, and a finished call has exactly one of a record and an exception.
C8_OneRequestPerCall ==
    \A c \in Calls :
        /\ pc[c] = "idle" => requests[c] = 0 /\ outcome[c] = NoOutcome
        /\ pc[c] = "waiting" => requests[c] = 1 /\ outcome[c] = NoOutcome
        /\ Done(c) => requests[c] = 1 /\ outcome[c].kind \in {"record", "error"}
        /\ Done(c) /\ reply[c].kind = "raised" => Failed(c)

\* One call ended by an endpoint failure, one by the date fallback.
C8_Witness ==
    \E c, d \in Calls :
        /\ Failed(c) /\ reply[c].kind = "raised"
        /\ Returned(d) /\ StartFailsToParse(d)

\* What one call owns.
Local(c) == <<pc[c], prompt[c], promptNow[c], requests[c], reply[c], replyNow[c], outcome[c]>>

\* The outcome of a call that runs alone, from its own reply and clock reading.
AloneOutcome(c) ==
    IF reply[c].kind = "raised"
    THEN Raise(reply[c].exc)
    ELSE IF RepliedNotJson(c)
    THEN Raise(RephraseError)
    ELSE try_body(ConfiguredZone, replyNow[c], reply[c].content)

\* C9: under every interleaving of the calls, a step changes what one call owns
\* at most, never the timezone or the client, and a call ends with the outcome
\* its own reply and clock reading give.
C9_CallsIndependent ==
    /\ [](\A c \in Calls : Done(c) =>
              /\ outcome[c] = AloneOutcome(c)
              /\ prompt[c].current_date_str = strftime(promptNow[c]))
    /\ [][/\ timezone' = timezone
          /\ client' = client
          /\ \A c, d \in Calls : c # d /\ Local(c)' # Local(c) => Local(d)' = Local(d)]_vars

\* A call sent first is still waiting when the call sent after it has failed.
C9_Witness ==
    \E c, d \in Calls :
        /\ pc[c] = "waiting"
        /\ Failed(d)
        /\ promptNow[c].wall < promptNow[d].wall

\* C10: while one invocation waits for the endpoint's reply, another task of the
\* event loop can take a step: a second invocation can start.
C10_OthersRunWhileWaiting ==
    \A c, d \in Calls : pc[c] = "waiting" /\ pc[d] = "idle" =>
        ENABLED (\E text \in Texts : Invoke(d, text))

====
